---- MODULE Spec2Model ----
(***************************************************************************)
(* Model of optionfetcher.py: the per-market fetch (fetch_option_data),    *)
(* the two-task concurrent dispatch (fetch_entire_market_data), the        *)
(* call/put reshaping of the raw records (clean_entire_market_data) and    *)
(* the top-level run of the script (__main__).                             *)
(***************************************************************************)
EXTENDS Integers, Sequences, FiniteSets, TLC

VARIABLES
    pc,        \* position of the main thread
    executor,  \* the ThreadPoolExecutor: "none", "open" or "shutdown"
    tasks,     \* the submitted fetch tasks (the futures), in submission order
    results,   \* the local list `results` of fetch_entire_market_data
    idx,       \* position of the `for future in futures` loop
    raw_data,  \* what fetch_entire_market_data returned
    table,     \* the DataFrame `data` of the script
    file,      \* the file at TSETMC_sample_data.csv
    writes,    \* how many times the file was written
    exc,       \* the exception travelling to the top-level handler (<<>> if none)
    handled,   \* how many times the top-level handler ran
    errlog     \* the error-level log records emitted so far

vars == <<pc, executor, tasks, results, idx, raw_data, table, file, writes,
          exc, handled, errlog>>

----------------------------------------------------------------------------
(* Bounds of the model *)

\* Longest list a response carries under "instrumentOptMarketWatch".
MaxRecs == 2

\* The raw records of the model are numbered 0..MaxVal.
MaxVal == 1

----------------------------------------------------------------------------
(* Python string and sequence helpers *)

\* str.endswith
EndsWith(s, suffix) ==
    /\ Len(s) >= Len(suffix)
    /\ SubSeq(s, Len(s) - Len(suffix) + 1, Len(s)) = suffix

\* str.replace(old, new): every non-overlapping occurrence, left to right.
RECURSIVE Replace(_, _, _)
Replace(s, old, new) ==
    IF Len(s) < Len(old) THEN s
    ELSE IF SubSeq(s, 1, Len(old)) = old
         THEN new \o Replace(SubSeq(s, Len(old) + 1, Len(s)), old, new)
         ELSE SubSeq(s, 1, 1) \o Replace(SubSeq(s, 2, Len(s)), old, new)

\* `x in seq`
InSeq(x, seq) == \E i \in 1..Len(seq) : seq[i] = x

\* list.index(x) + 1 : the first position of x in seq (0 when absent).
IndexOf(x, seq) ==
    IF InSeq(x, seq)
    THEN CHOOSE i \in 1..Len(seq) :
            /\ seq[i] = x
            /\ \A j \in 1..(i - 1) : seq[j] # x
    ELSE 0

\* dict.get(key, default)
DictGet(d, key, default) == IF key \in DOMAIN d THEN d[key] ELSE default

----------------------------------------------------------------------------
(* Constants of the program *)

\* MARKETS_NUM, and the order of MARKETS_NUM.keys()
MARKETS_NUM == [bourse |-> 1, fara_bourse |-> 2]

MARKETS_KEYS == <<"bourse", "fara_bourse">>

GENERAL_COLUMN_NAMES ==
    [uaInsCode         |-> "ua_tse_code",
     lval30_UA         |-> "ua_ticker",
     remainedDay       |-> "days_to_maturity",
     strikePrice       |-> "strike_price",
     contractSize      |-> "contract_size",
     pClosing_UA       |-> "ua_close_price",
     priceYesterday_UA |-> "ua_yesterday_price",
     beginDate         |-> "begin_date",
     endDate           |-> "end_date"]

SPECIFIC_COLUMN_NAMES ==
    [insCode        |-> "tse_code",
     lVal18AFC      |-> "ticker",
     zTotTran       |-> "trades_num",
     qTotTran5J     |-> "trades_volume",
     qTotCap        |-> "trades_value",
     pDrCotVal      |-> "last_price",
     pClosing       |-> "close_price",
     priceYesterday |-> "yesterday_price",
     oP             |-> "open_positions",
     yesterdayOP    |-> "yesterday_open_positions",
     notionalValue  |-> "notional_value",
     pMeDem         |-> "bid_price",
     qTitMeDem      |-> "bid_volume",
     pMeOf          |-> "ask_price",
     qTitMeOf       |-> "ask_volume",
     lVal30         |-> "name"]

\* The keys of an OptionData record, in the order the class declares them.
OptionData ==
    <<"insCode_P", "insCode_C", "contractSize", "uaInsCode", "lVal18AFC_P",
      "lVal30_P", "zTotTran_P", "qTotTran5J_P", "qTotCap_P", "notionalValue_P",
      "pClosing_P", "priceYesterday_P", "oP_P", "pDrCotVal_P", "lval30_UA",
      "pClosing_UA", "priceYesterday_UA", "beginDate", "endDate", "strikePrice",
      "remainedDay", "pDrCotVal_C", "oP_C", "pClosing_C", "priceYesterday_C",
      "notionalValue_C", "qTotCap_C", "qTotTran5J_C", "zTotTran_C", "lVal30_C",
      "lVal18AFC_C", "pMeDem_P", "qTitMeDem_P", "pMeOf_P", "qTitMeOf_P",
      "pMeDem_C", "qTitMeDem_C", "pMeOf_C", "qTitMeOf_C", "yesterdayOP_C",
      "yesterdayOP_P">>

\* The key of OptionDataOutput that holds the records.
DataField == "instrumentOptMarketWatch"

\* The pool size of ThreadPoolExecutor(max_workers=2).
max_workers == 2

----------------------------------------------------------------------------
(* The inputs of the model: raw records and HTTP outcomes *)

\* Raw record number k: a dictionary with every key of OptionData, each value
\* different from the value of every other key and of every other record.
RawRecord(k) ==
    [f \in {OptionData[i] : i \in 1..Len(OptionData)} |->
        IndexOf(f, OptionData) * (MaxVal + 1) + k]

RawRecords == {RawRecord(k) : k \in 0..MaxVal}

\* The list of n records that starts with record k and goes on with the
\* records that follow it, back to record 0 after record MaxVal.
RecordRun(k, n) == [i \in 1..n |-> RawRecord((k + i - 1) % (MaxVal + 1))]

RecordLists == {RecordRun(k, n) : k \in 0..MaxVal, n \in 0..MaxRecs}

\* The JSON objects a body parses to: with the data field (a list of at most
\* MaxRecs records), or without it.
JsonObjects ==
    {[instrumentOptMarketWatch |-> recs] : recs \in RecordLists}
        \cup {[msg |-> "no data"]}

Statuses == {200, 404, 500}

\* What requests.get can hand back: a response with a status and a body that
\* is a JSON object or is not JSON at all.
Responses ==
    {[status |-> s, is_json |-> TRUE, obj |-> o] : s \in Statuses, o \in JsonObjects}
        \cup {[status |-> s, is_json |-> FALSE, obj |-> [msg |-> "<html>"]] : s \in Statuses}

\* The exceptions requests.get itself raises (no response at all).
ConnectionFailures == {"ConnectionError", "Timeout"}

\* The subclasses of requests.RequestException that occur.
RequestException == ConnectionFailures \cup {"HTTPError", "JSONDecodeError"}

\* The segment values fetch_option_data is called with directly.
Segments == {"bourse", "fara_bourse", "tehran", "BOURSE", "farabourse", "1", ""}

----------------------------------------------------------------------------
(* fetch_option_data: one call, run by a pool worker or called directly *)

\* Faulty variant of Url: the market number is not used, every call goes to
\* the URL of market 1.
UrlOfFirstMarket(market_num) ==
    "https://cdn.tsetmc.com/api/Instrument/GetInstrumentOptionMarketWatch/"
        \o ToString(1)

\* The URL of a market number.
Url(market_num) ==
    "https://cdn.tsetmc.com/api/Instrument/GetInstrumentOptionMarketWatch/"
        \o ToString(market_num)

\* A call of fetch_option_data(market) that has not started to run.
NewTask(market, st) ==
    [market |-> market, st |-> st, requests |-> <<>>, resp |-> <<>>,
     data |-> <<>>, exc |-> ""]

\* Faulty variant of Finished: a task counts as finished as soon as a worker
\* has taken it, as if the result were not waited for.
FinishedOnceStarted(t) == t.st # "queued"

Finished(t) == t.st \in {"returned", "raised"}

Running(t) == t.st \in {"entered", "requesting", "responded"}

SetTask(i, t) == tasks' = [tasks EXCEPT ![i] = t]

\* A worker thread of the pool takes a queued task: at most max_workers run.
TaskStart(i) ==
    /\ executor = "open"
    /\ tasks[i].st = "queued"
    /\ Cardinality({j \in 1..Len(tasks) : Running(tasks[j])}) < max_workers
    /\ SetTask(i, [tasks[i] EXCEPT !.st = "entered"])
    /\ UNCHANGED <<pc, executor, results, idx, raw_data, table, file, writes,
                   exc, handled, errlog>>

\* market_num = MARKETS_NUM.get(market); None raises ValueError before the URL
\* is even built.
Lookup(i) ==
    /\ tasks[i].st = "entered"
    /\ IF tasks[i].market \notin DOMAIN MARKETS_NUM
       THEN /\ SetTask(i, [tasks[i] EXCEPT !.st = "raised", !.exc = "ValueError"])
            /\ errlog' = errlog \cup
                 {[at |-> "fetch_option_data", what |-> tasks[i].market,
                   exc |-> "ValueError"]}
       ELSE /\ SetTask(i, [tasks[i] EXCEPT !.st = "requesting"])
            /\ UNCHANGED errlog
    /\ UNCHANGED <<pc, executor, results, idx, raw_data, table, file, writes,
                   exc, handled>>

\* The handler of `except requests.RequestException`: log, then re-raise.
FetchRaise(i, t, e) ==
    /\ SetTask(i, [t EXCEPT !.st = "raised", !.exc = e])
    /\ errlog' = IF e \in RequestException
                 THEN errlog \cup {[at |-> "fetch_option_data",
                                    what |-> t.market, exc |-> e]}
                 ELSE errlog

\* requests.get(url, headers, timeout=10): one request goes out; it fails to
\* connect or times out, or a response comes back. The User-Agent header
\* does not change what follows.
Request(i) ==
    /\ tasks[i].st = "requesting"
    /\ LET sent == [tasks[i] EXCEPT
                      !.requests = Append(@, Url(MARKETS_NUM[tasks[i].market]))]
       IN  \/ \E e \in ConnectionFailures : FetchRaise(i, sent, e)
           \/ \E r \in Responses :
                /\ SetTask(i, [sent EXCEPT !.st = "responded", !.resp = <<r>>])
                /\ UNCHANGED errlog
    /\ UNCHANGED <<pc, executor, results, idx, raw_data, table, file, writes,
                   exc, handled>>

\* Faulty variant of raise_for_status: the status is never checked.
raise_for_status_skipped(r) == FALSE

\* response.raise_for_status(): HTTPError for a 4xx or 5xx status.
raise_for_status(r) == r.status >= 400 /\ r.status < 600

\* json_response.get("instrumentOptMarketWatch", [])
ExtractData(obj) == DictGet(obj, DataField, <<>>)

\* Lines 135-139 on a response: the exception raised ("" if none) and the
\* list returned.
ParseResponse(r) ==
    IF raise_for_status(r) THEN [exc |-> "HTTPError", data |-> <<>>]
    ELSE IF ~r.is_json THEN [exc |-> "JSONDecodeError", data |-> <<>>]
    ELSE [exc |-> "", data |-> ExtractData(r.obj)]

HandleResponse(i) ==
    /\ tasks[i].st = "responded"
    /\ LET out == ParseResponse(tasks[i].resp[1])
       IN  IF out.exc # ""
           THEN FetchRaise(i, tasks[i], out.exc)
           ELSE /\ SetTask(i, [tasks[i] EXCEPT !.st = "returned", !.data = out.data])
                /\ UNCHANGED errlog
    /\ UNCHANGED <<pc, executor, results, idx, raw_data, table, file, writes,
                   exc, handled>>

----------------------------------------------------------------------------
(* clean_entire_market_data, on a table of named columns and rows of cells *)

\* The cell pandas puts where a record has no value for a column.
NaN == "NaN"

HasColumn(df, name) == InSeq(name, df.columns)

Cell(df, i, name) == df.data[i][IndexOf(name, df.columns)]

\* pd.DataFrame(records): the columns are the keys of the records, one row
\* per record in the order of the list.
DataFrame(records) ==
    LET present(k) == \E i \in 1..Len(records) : k \in DOMAIN records[i]
        cols == SelectSeq(OptionData, present)
    IN  [columns |-> cols,
         data |-> [i \in 1..Len(records) |->
                     [j \in 1..Len(cols) |-> DictGet(records[i], cols[j], NaN)]]]

\* df[names], every name being a column of df
Select(df, names) ==
    [columns |-> names,
     data |-> [i \in 1..Len(df.data) |->
                 [j \in 1..Len(names) |-> Cell(df, i, names[j])]]]

\* Faulty variant of Rename: the columns keep their names.
RenameNothing(df, mapping) == df

\* df.rename(columns=mapping)
Rename(df, mapping) ==
    [df EXCEPT !.columns = [j \in 1..Len(df.columns) |->
                              DictGet(mapping, df.columns[j], df.columns[j])]]

\* df[name] = value, a scalar: a new last column, or an existing one overwritten
SetItem(df, name, value) ==
    IF HasColumn(df, name)
    THEN [df EXCEPT !.data = [i \in 1..Len(df.data) |->
                                [df.data[i] EXCEPT ![IndexOf(name, df.columns)] = value]]]
    ELSE [columns |-> Append(df.columns, name),
          data |-> [i \in 1..Len(df.data) |-> Append(df.data[i], value)]]

\* Faulty variant of Concat: the rows of b come first, pd.concat([b, a]).
ConcatReversed(a, b) ==
    LET onlyA(c) == ~InSeq(c, b.columns)
        cols == b.columns \o SelectSeq(a.columns, onlyA)
        row(df, i) == [j \in 1..Len(cols) |->
                         IF InSeq(cols[j], df.columns)
                         THEN df.data[i][IndexOf(cols[j], df.columns)] ELSE NaN]
    IN  [columns |-> cols,
         data |-> [i \in 1..Len(b.data) |-> row(b, i)]
                    \o [i \in 1..Len(a.data) |-> row(a, i)]]

\* pd.concat([a, b], ignore_index=True): the rows of a, then the rows of b,
\* over the columns of a followed by the columns only b has.
Concat(a, b) ==
    LET onlyB(c) == ~HasColumn(a, c)
        cols == a.columns \o SelectSeq(b.columns, onlyB)
        row(df, i) == [j \in 1..Len(cols) |->
                         IF HasColumn(df, cols[j]) THEN Cell(df, i, cols[j]) ELSE NaN]
    IN  [columns |-> cols,
         data |-> [i \in 1..Len(a.data) |-> row(a, i)]
                    \o [i \in 1..Len(b.data) |-> row(b, i)]]

\* general_columns: the columns that end neither in "_P" nor in "_C"
GeneralColumns(df) ==
    LET general(col) == ~(EndsWith(col, "_P") \/ EndsWith(col, "_C"))
    IN  SelectSeq(df.columns, general)

\* specific_columns: the columns that end in "_C", with every "_C" removed
SpecificColumns(df) ==
    LET isCall(col) == EndsWith(col, "_C")
        callColumns == SelectSeq(df.columns, isCall)
    IN  [j \in 1..Len(callColumns) |-> Replace(callColumns[j], "_C", "")]

\* The column names one leg selects: general_columns + [f"{col}{suffix}" ...]
LegColumns(df, suffix) ==
    LET specific_columns == SpecificColumns(df)
    IN  GeneralColumns(df)
            \o [j \in 1..Len(specific_columns) |-> specific_columns[j] \o suffix]

\* Faulty variant of Leg: both sub-tables are built from the "_C" columns.
LegOfCalls(df, suffix, tag) ==
    LET selected == Select(df, LegColumns(df, "_C"))
        stripped == [selected EXCEPT !.columns =
                        [j \in 1..Len(selected.columns) |->
                            Replace(selected.columns[j], "_C", "")]]
    IN  SetItem(Rename(stripped, SPECIFIC_COLUMN_NAMES), "option_type", tag)

\* One leg's sub-table: select, strip the suffix from the column names,
\* rename by SPECIFIC_COLUMN_NAMES, tag option_type.
Leg(df, suffix, tag) ==
    LET selected == Select(df, LegColumns(df, suffix))
        stripped == [selected EXCEPT !.columns =
                        [j \in 1..Len(selected.columns) |->
                            Replace(selected.columns[j], suffix, "")]]
    IN  SetItem(Rename(stripped, SPECIFIC_COLUMN_NAMES), "option_type", tag)

\* Faulty variant of CleanError: the columns are read off the first record,
\* which an empty list does not have.
CleanErrorOnEmpty(records) == IF Len(records) = 0 THEN "IndexError" ELSE ""

\* The exception clean_entire_market_data raises on these records ("" if
\* none): KeyError when a selected column is not in the frame.
CleanError(records) ==
    LET df == DataFrame(records)
        missing(suffix) == \E j \in 1..Len(LegColumns(df, suffix)) :
                              ~HasColumn(df, LegColumns(df, suffix)[j])
    IN  IF missing("_C") \/ missing("_P") THEN "KeyError" ELSE ""

\* The table clean_entire_market_data returns.
clean_entire_market_data(records) ==
    LET df == DataFrame(records)
        calls == Leg(df, "_C", "call")
        puts == Leg(df, "_P", "put")
    IN  Rename(Concat(calls, puts), GENERAL_COLUMN_NAMES)

\* data.to_csv(path, index=False): a header line of the column names, then
\* one line per row.
to_csv(df) == [header |-> df.columns, lines |-> df.data]

\* Faulty variant of to_dict_records: [data.to_dict()], the one dictionary of
\* the columns, whatever the number of rows.
to_dict_columns(df) ==
    <<[c \in {df.columns[j] : j \in 1..Len(df.columns)} |->
         [i \in 1..Len(df.data) |-> Cell(df, i, c)]]>>

\* data.to_dict("records"): one dictionary per row
to_dict_records(df) ==
    [i \in 1..Len(df.data) |->
        [c \in {df.columns[j] : j \in 1..Len(df.columns)} |-> Cell(df, i, c)]]

----------------------------------------------------------------------------
(* The main thread: __main__, fetch_cleaned_entire_market_data and          *)
(* fetch_entire_market_data                                                 *)

EmptyFrame == [columns |-> <<>>, data |-> <<>>]

\* The file before the run: absent, or left by an earlier run.
AbsentFile == [kind |-> "absent", content |-> to_csv(EmptyFrame)]

PriorFiles == {AbsentFile, [kind |-> "prior", content |-> to_csv(EmptyFrame)]}

Main(to) == pc' = to

\* An exception leaves the try body of __main__ for its handler.
RaiseToTop(e, at) ==
    /\ pc' = "handler"
    /\ exc' = <<[exc |-> e, at |-> at]>>

\* "Script started." ... "Starting to fetch entire market data concurrently."
Start ==
    /\ pc = "start"
    /\ Main("with_enter")
    /\ UNCHANGED <<executor, tasks, results, idx, raw_data, table, file,
                   writes, exc, handled, errlog>>

\* with ThreadPoolExecutor(max_workers=2) as executor:
EnterPool ==
    /\ pc = "with_enter"
    /\ executor' = "open"
    /\ Main("submit")
    /\ UNCHANGED <<tasks, results, idx, raw_data, table, file, writes, exc,
                   handled, errlog>>

\* One executor.submit(fetch_option_data, market) of the dict comprehension,
\* for the next market of MARKETS_NUM.keys().
Submit ==
    /\ pc = "submit"
    /\ Len(tasks) < Len(MARKETS_KEYS)
    /\ tasks' = Append(tasks, NewTask(MARKETS_KEYS[Len(tasks) + 1], "queued"))
    /\ UNCHANGED <<pc, executor, results, idx, raw_data, table, file, writes,
                   exc, handled, errlog>>

\* results = [], once every market is submitted
InitResults ==
    /\ pc = "submit"
    /\ Len(tasks) = Len(MARKETS_KEYS)
    /\ results' = <<>>
    /\ idx' = 1
    /\ Main("collect")
    /\ UNCHANGED <<executor, tasks, raw_data, table, file, writes, exc,
                   handled, errlog>>

\* Faulty variant of Extend: results = data, the earlier records are lost.
ExtendOverwrites(list, data) == data

\* results.extend(data)
Extend(list, data) == list \o data

\* Faulty variant of CaughtAsException: except requests.RequestException.
CaughtOnlyRequestException(e) == e \in RequestException

\* What `except Exception` catches.
CaughtAsException(e) ==
    e \in RequestException \cup {"ValueError", "KeyError", "IndexError", "OSError"}

\* One pass of `for future in futures`: future.result() waits for the task,
\* then extends results with its list or catches and logs its exception.
Collect ==
    /\ pc = "collect"
    /\ exc = <<>>
    /\ idx <= Len(tasks)
    /\ Finished(tasks[idx])
    /\ IF tasks[idx].st = "returned"
       THEN /\ results' = Extend(results, tasks[idx].data)
            /\ idx' = idx + 1
            /\ UNCHANGED <<pc, exc, errlog>>
       ELSE IF CaughtAsException(tasks[idx].exc)
            THEN /\ errlog' = errlog \cup
                       {[at |-> "fetch_entire_market_data",
                         what |-> tasks[idx].market, exc |-> tasks[idx].exc]}
                 /\ idx' = idx + 1
                 /\ UNCHANGED <<pc, results, exc>>
            ELSE /\ exc' = <<[exc |-> tasks[idx].exc, at |-> "fetch"]>>
                 /\ UNCHANGED <<pc, results, idx, errlog>>
    /\ UNCHANGED <<executor, tasks, raw_data, table, file, writes, handled>>

\* Leaving the with block, at the end of the loop or with an exception on
\* its way out: executor.shutdown(wait=True) returns once no task is queued
\* or running.
ExitPool ==
    /\ pc = "collect"
    /\ idx > Len(tasks) \/ exc # <<>>
    /\ \A i \in 1..Len(tasks) : Finished(tasks[i])
    /\ executor' = "shutdown"
    /\ Main(IF exc # <<>> THEN "handler" ELSE "return")
    /\ UNCHANGED <<tasks, results, idx, raw_data, table, file, writes, exc,
                   handled, errlog>>

\* return results; raw_data = fetch_entire_market_data()
ReturnResults ==
    /\ pc = "return"
    /\ raw_data' = results
    /\ Main("clean")
    /\ UNCHANGED <<executor, tasks, results, idx, table, file, writes, exc,
                   handled, errlog>>

\* cleaned_data = clean_entire_market_data(raw_data); data = cleaned_data
Clean ==
    /\ pc = "clean"
    /\ IF CleanError(raw_data) # ""
       THEN /\ RaiseToTop(CleanError(raw_data), "clean")
            /\ UNCHANGED table
       ELSE /\ table' = clean_entire_market_data(raw_data)
            /\ Main("to_csv")
            /\ UNCHANGED exc
    /\ UNCHANGED <<executor, tasks, results, idx, raw_data, file, writes,
                   handled, errlog>>

\* data.to_csv(path_or_buf=csv_path, index=False): the file is replaced; or
\* the file cannot be opened and OSError is raised; or it is opened, which
\* empties it, and the write fails with OSError.
ToCsv ==
    /\ pc = "to_csv"
    /\ \/ /\ file' = [kind |-> "written", content |-> to_csv(table)]
          /\ writes' = writes + 1
          /\ Main("first_record")
          /\ UNCHANGED exc
       \/ /\ RaiseToTop("OSError", "to_csv")
          /\ UNCHANGED <<file, writes>>
       \/ /\ RaiseToTop("OSError", "to_csv")
          /\ file' = [kind |-> "truncated", content |-> to_csv(EmptyFrame)]
          /\ UNCHANGED writes
    /\ UNCHANGED <<executor, tasks, results, idx, raw_data, table, handled,
                   errlog>>

\* first_record = data.to_dict("records")[0]: IndexError on an empty list
FirstRecord ==
    /\ pc = "first_record"
    /\ IF Len(to_dict_records(table)) = 0
       THEN RaiseToTop("IndexError", "first_record")
       ELSE /\ Main("done")
            /\ UNCHANGED exc
    /\ UNCHANGED <<executor, tasks, results, idx, raw_data, table, file,
                   writes, handled, errlog>>

\* except Exception as e: logger.exception(...); nothing is re-raised
Handler ==
    /\ pc = "handler"
    /\ IF CaughtAsException(exc[1].exc)
       THEN /\ handled' = handled + 1
            /\ errlog' = errlog \cup
                 {[at |-> "__main__", what |-> exc[1].at, exc |-> exc[1].exc]}
            /\ exc' = <<>>
            /\ Main("failed")
       ELSE /\ Main("crashed")
            /\ UNCHANGED <<handled, errlog, exc>>
    /\ UNCHANGED <<executor, tasks, results, idx, raw_data, table, file, writes>>

----------------------------------------------------------------------------
(* Specifications *)

\* One run of the script.
Init ==
    /\ pc = "start"
    /\ executor = "none"
    /\ tasks = <<>>
    /\ results = <<>>
    /\ idx = 0
    /\ raw_data = <<>>
    /\ table = EmptyFrame
    /\ file \in PriorFiles
    /\ writes = 0
    /\ exc = <<>>
    /\ handled = 0
    /\ errlog = {}

Next ==
    \/ Start
    \/ EnterPool
    \/ Submit
    \/ InitResults
    \/ Collect
    \/ ExitPool
    \/ ReturnResults
    \/ Clean
    \/ ToCsv
    \/ FirstRecord
    \/ Handler
    \/ \E i \in 1..Len(tasks) : TaskStart(i)
    \/ \E i \in 1..Len(tasks) : Lookup(i)
    \/ \E i \in 1..Len(tasks) : Request(i)
    \/ \E i \in 1..Len(tasks) : HandleResponse(i)

Spec == Init /\ [][Next]_vars

\* One direct call of fetch_option_data(market), for any segment value.
InitFetch ==
    /\ pc = "direct"
    /\ executor = "none"
    /\ \E market \in Segments : tasks = <<NewTask(market, "entered")>>
    /\ results = <<>>
    /\ idx = 0
    /\ raw_data = <<>>
    /\ table = EmptyFrame
    /\ file = AbsentFile
    /\ writes = 0
    /\ exc = <<>>
    /\ handled = 0
    /\ errlog = {}

NextFetch ==
    \/ \E i \in 1..Len(tasks) : Lookup(i)
    \/ \E i \in 1..Len(tasks) : Request(i)
    \/ \E i \in 1..Len(tasks) : HandleResponse(i)

SpecFetch == InitFetch /\ [][NextFetch]_vars

----------------------------------------------------------------------------
(* Vocabulary of the properties *)

\* The main thread is past the return of fetch_entire_market_data.
FetchAllReturned == pc \notin {"start", "with_enter", "submit", "collect", "return"}

\* clean_entire_market_data has returned the table.
CleanReturned == pc \in {"to_csv", "first_record", "done"}

\* The run is over.
RunEnded == pc \in {"done", "failed", "crashed"}

IsSuccess(r) == r.status \in 200..299

\* The records a task's response carries, whatever its status.
Carried(t) ==
    IF t.resp # <<>> /\ t.resp[1].is_json /\ "instrumentOptMarketWatch" \in DOMAIN t.resp[1].obj
    THEN t.resp[1].obj.instrumentOptMarketWatch
    ELSE <<>>

\* The fetch of a task succeeded: a success response with a JSON body came back.
Succeeded(t) == t.resp # <<>> /\ IsSuccess(t.resp[1]) /\ t.resp[1].is_json

Count(x, seq) == Cardinality({i \in 1..Len(seq) : seq[i] = x})

\* Row j of df is the row of one leg of raw record r: tagged with the leg,
\* every specific field of the leg and every general field under its
\* canonical name and with the value of r.
IsLegRow(df, j, r, suffix, tag) ==
    /\ j \in 1..Len(df.data)
    /\ HasColumn(df, "option_type")
    /\ Cell(df, j, "option_type") = tag
    /\ \A f \in DOMAIN SPECIFIC_COLUMN_NAMES :
          /\ HasColumn(df, SPECIFIC_COLUMN_NAMES[f])
          /\ Cell(df, j, SPECIFIC_COLUMN_NAMES[f]) = r[f \o suffix]
    /\ \A g \in DOMAIN GENERAL_COLUMN_NAMES :
          /\ HasColumn(df, GENERAL_COLUMN_NAMES[g])
          /\ Cell(df, j, GENERAL_COLUMN_NAMES[g]) = r[g]

\* The canonical name of a raw key.
Canonical(key) ==
    IF key \in DOMAIN GENERAL_COLUMN_NAMES THEN GENERAL_COLUMN_NAMES[key]
    ELSE SPECIFIC_COLUMN_NAMES[SubSeq(key, 1, Len(key) - 2)]

\* Row j holds the value of key `key` of record r under the canonical name.
Holds(df, j, r, key) ==
    /\ HasColumn(df, Canonical(key))
    /\ Cell(df, j, Canonical(key)) = r[key]

MainLogged(at) == \E l \in errlog : l.at = "__main__" /\ l.what = at

----------------------------------------------------------------------------
(* C1 *)

\* C1: fetch_entire_market_data never raises, and what it returns holds
\* exactly the records of the segments whose fetch succeeded: each record as
\* often as the successful responses carry it, none from a failed segment.
C1_FetchAllUnion ==
    /\ pc # "crashed"
    /\ exc # <<>> => exc[1].at # "fetch"
    /\ ~MainLogged("fetch")
    /\ FetchAllReturned =>
          /\ Len(tasks) = 2
          /\ \A r \in RawRecords :
                Count(r, raw_data) =
                    (IF Succeeded(tasks[1]) THEN Count(r, Carried(tasks[1])) ELSE 0)
                  + (IF Succeeded(tasks[2]) THEN Count(r, Carried(tasks[2])) ELSE 0)
          /\ \A i \in 1..Len(raw_data) : raw_data[i] \in RawRecords

\* C1 witness: fetch_entire_market_data has returned the records of
\* fara_bourse alone, the fetch of bourse having failed on a response that
\* carried records.
C1_Witness ==
    /\ pc = "clean"
    /\ tasks[1].st = "raised"
    /\ Len(Carried(tasks[1])) > 0
    /\ tasks[2].st = "returned"
    /\ Len(raw_data) = MaxRecs
    /\ raw_data = Carried(tasks[2])

----------------------------------------------------------------------------
(* C2 *)

\* C2: one call of fetch_option_data issues exactly one request, to the URL
\* of its segment's number (bourse 1, fara_bourse 2), when the segment is
\* valid, and no request when it is not: the call then raises ValueError.
C2_RequestCount ==
    \A i \in 1..Len(tasks) :
        LET t == tasks[i]
        IN  /\ Len(t.requests) <= 1
            /\ t.market \notin {"bourse", "fara_bourse"} =>
                  /\ t.requests = <<>>
                  /\ Finished(t) => t.st = "raised" /\ t.exc = "ValueError"
                  /\ t.st \in {"entered", "raised"}
            /\ (t.market = "bourse" /\ Finished(t)) =>
                  t.requests =
                    <<"https://cdn.tsetmc.com/api/Instrument/GetInstrumentOptionMarketWatch/1">>
            /\ (t.market = "fara_bourse" /\ Finished(t)) =>
                  t.requests =
                    <<"https://cdn.tsetmc.com/api/Instrument/GetInstrumentOptionMarketWatch/2">>

\* C2 witness: a call with an unknown segment has raised ValueError, no
\* request sent.
C2_Witness ==
    \E i \in 1..Len(tasks) :
        /\ tasks[i].market = "tehran"
        /\ tasks[i].st = "raised"
        /\ tasks[i].exc = "ValueError"
        /\ tasks[i].requests = <<>>

----------------------------------------------------------------------------
(* C3 *)

----------------------------------------------------------------------------
(* C4 *)

\* C4: for every raw record given to clean_entire_market_data the table
\* holds a row tagged "call" with the record's _C values and a row tagged
\* "put" with its _P values, both with the record's general values, every
\* field under its canonical name.
C4_CallAndPutRow ==
    CleanReturned =>
        \A i \in 1..Len(raw_data) :
            /\ \E j \in 1..Len(table.data) : IsLegRow(table, j, raw_data[i], "_C", "call")
            /\ \E j \in 1..Len(table.data) : IsLegRow(table, j, raw_data[i], "_P", "put")

\* C4 witness: a record with uaInsCode, insCode_C, pClosing_C, insCode_P and
\* pClosing_P has been reshaped into a call row and a put row.
C4_Witness ==
    /\ CleanReturned
    /\ Len(raw_data) > 0
    /\ \E j, k \in 1..Len(table.data) :
          /\ Cell(table, j, "option_type") = "call"
          /\ Cell(table, j, "tse_code") = raw_data[1].insCode_C
          /\ Cell(table, j, "close_price") = raw_data[1].pClosing_C
          /\ Cell(table, j, "ua_tse_code") = raw_data[1].uaInsCode
          /\ Cell(table, k, "option_type") = "put"
          /\ Cell(table, k, "tse_code") = raw_data[1].insCode_P
          /\ Cell(table, k, "close_price") = raw_data[1].pClosing_P
          /\ Cell(table, k, "ua_tse_code") = raw_data[1].uaInsCode

----------------------------------------------------------------------------
(* C5 *)

\* C5 as stated: every value of a raw record's general or leg-specific
\* fields appears, under its renamed key, in exactly one produced row.
C5_ExactlyOneRow ==
    CleanReturned =>
        \A i \in 1..Len(raw_data) : \A key \in DOMAIN raw_data[i] :
            Cardinality({j \in 1..Len(table.data) :
                            Holds(table, j, raw_data[i], key)}) = 1

\* C5 as amended: the two rows produced for a raw record, its call row and
\* its put row, give the record back: each _C field is held unchanged under
\* its renamed key by the call row, each _P field by the put row, each
\* general field by both, and the rows hold no other column but option_type.
C5_RoundTrip ==
    CleanReturned =>
        LET n == Len(raw_data)
        IN  /\ Len(table.data) = 2 * n
            /\ \A i \in 1..n : \A key \in DOMAIN raw_data[i] :
                  /\ EndsWith(key, "_C") => Holds(table, i, raw_data[i], key)
                  /\ EndsWith(key, "_P") => Holds(table, n + i, raw_data[i], key)
                  /\ key \in DOMAIN GENERAL_COLUMN_NAMES =>
                        /\ Holds(table, i, raw_data[i], key)
                        /\ Holds(table, n + i, raw_data[i], key)
            /\ n > 0 =>
                  {table.columns[c] : c \in 1..Len(table.columns)} =
                      {Canonical(key) : key \in DOMAIN raw_data[1]} \cup {"option_type"}
            /\ n > 0 =>
                  Len(table.columns) =
                      Cardinality({Canonical(key) : key \in DOMAIN raw_data[1]}) + 1

\* C5 witness: one record with distinct values in all its fields has been
\* reshaped; its general value sits in both of its rows.
C5_Witness ==
    /\ CleanReturned
    /\ Len(raw_data) = 1
    /\ Len(table.data) = 2
    /\ Holds(table, 1, raw_data[1], "uaInsCode")
    /\ Holds(table, 2, raw_data[1], "uaInsCode")
    /\ Holds(table, 1, raw_data[1], "pClosing_C")
    /\ ~Holds(table, 2, raw_data[1], "pClosing_C")

----------------------------------------------------------------------------
(* C6 *)

\* C6: N raw records give exactly 2N rows: rows 1..N are the call rows of
\* the records in input order, rows N+1..2N their put rows in input order.
C6_TwoRowsPerRecord ==
    CleanReturned =>
        LET n == Len(raw_data)
        IN  /\ Len(table.data) = 2 * n
            /\ \A i \in 1..n :
                  /\ IsLegRow(table, i, raw_data[i], "_C", "call")
                  /\ IsLegRow(table, n + i, raw_data[i], "_P", "put")

\* C6 witness: one segment answered with two different records, the other
\* contributed nothing, and the table has four rows.
C6_Witness ==
    /\ CleanReturned
    /\ Len(Carried(tasks[1])) = 2
    /\ tasks[1].st = "returned"
    /\ tasks[1].data[1] # tasks[1].data[2]
    /\ tasks[2].st = "raised"
    /\ Len(raw_data) = 2
    /\ Len(table.data) = 4

----------------------------------------------------------------------------
(* C7 *)

\* C7: clean_entire_market_data on the empty list does not raise and
\* returns a table with zero rows.
C7_EmptyInput ==
    (FetchAllReturned /\ raw_data = <<>>) =>
        /\ ~MainLogged("clean")
        /\ exc # <<>> => exc[1].at # "clean"
        /\ pc # "clean" => pc \in {"to_csv", "first_record", "handler", "failed"}
        /\ CleanReturned => Len(table.data) = 0

\* C7 witness: the empty list has been cleaned into a table without rows.
C7_Witness ==
    /\ pc = "to_csv"
    /\ raw_data = <<>>
    /\ Len(table.data) = 0
    /\ table.columns = <<"option_type">>

----------------------------------------------------------------------------
(* C8 *)

\* C8: no exception leaves the top-level run: an exception raised at any
\* step is caught once by the top-level handler and logged, the steps after
\* the failing one are not run, nothing is re-raised, and the file is
\* written at most once.
C8_TopLevelHandler ==
    /\ pc # "crashed"
    /\ writes <= 1
    /\ handled <= 1
    /\ pc = "failed" =>
          /\ handled = 1
          /\ exc = <<>>
          /\ \E l \in errlog : l.at = "__main__"
    /\ pc = "done" => handled = 0 /\ writes = 1
    /\ (MainLogged("clean") \/ MainLogged("to_csv")) =>
          /\ writes = 0
          /\ file.kind # "written"
    /\ (exc # <<>> /\ exc[1].at \in {"clean", "to_csv"}) => writes = 0
    /\ Cardinality({l \in errlog : l.at = "__main__"}) <= 1

\* C8 witness: the save step raised, the handler caught and logged it, and
\* the run ended without the file being written.
C8_Witness ==
    /\ pc = "failed"
    /\ handled = 1
    /\ MainLogged("to_csv")
    /\ writes = 0
    /\ Len(raw_data) > 0

----------------------------------------------------------------------------
(* C9 *)

\* C9: once fetch_entire_market_data has left its with block, and so when
\* the reshape step starts, both fetch tasks have returned or raised and the
\* pool is shut down; there are never more than two fetch tasks.
C9_ReshapeAfterFetch ==
    /\ Len(tasks) <= 2
    /\ pc \notin {"start", "with_enter", "submit", "collect"} =>
          /\ Len(tasks) = 2
          /\ \A i \in 1..Len(tasks) : tasks[i].st \in {"returned", "raised"}
          /\ executor = "shutdown"
    /\ executor = "shutdown" =>
          \A i \in 1..Len(tasks) : tasks[i].st \in {"returned", "raised"}

\* C9 witness: the reshape step is about to start after one fetch failed
\* and the other returned.
C9_Witness ==
    /\ pc = "clean"
    /\ executor = "shutdown"
    /\ tasks[1].st = "returned"
    /\ tasks[2].st = "raised"

----------------------------------------------------------------------------
(* C10 *)

\* C10 as stated: a run whose fetch yields zero records never ends on the
\* success path and always leaves the file overwritten with a table of zero
\* rows.
C10_AlwaysOverwritten ==
    (RunEnded /\ raw_data = <<>>) =>
        /\ pc = "failed"
        /\ writes = 1
        /\ file.kind = "written"
        /\ file.content.lines = <<>>

\* C10 as amended: a run whose fetch yields zero records never ends on the
\* success path; it reaches the save step, and unless the save itself
\* raises the file is replaced by a table of zero rows before the first-row
\* step runs, which then raises IndexError; either exception is absorbed by
\* the top-level handler.
C10_EmptyRun ==
    (FetchAllReturned /\ raw_data = <<>>) =>
        /\ pc # "done"
        /\ pc = "first_record" =>
              /\ writes = 1
              /\ file.kind = "written"
              /\ file.content.lines = <<>>
        /\ RunEnded =>
              /\ pc = "failed"
              /\ handled = 1
              /\ \/ /\ MainLogged("first_record")
                    /\ writes = 1
                    /\ file.kind = "written"
                    /\ file.content.lines = <<>>
                 \/ /\ MainLogged("to_csv")
                    /\ writes = 0
                    /\ file.kind # "written"

\* C10 witness: both fetches failed, the file was replaced by a table
\* without rows, the first-row step raised and the handler absorbed it.
C10_Witness ==
    /\ pc = "failed"
    /\ raw_data = <<>>
    /\ tasks[1].st = "raised"
    /\ tasks[2].st = "raised"
    /\ MainLogged("first_record")
    /\ file.kind = "written"
    /\ file.content.lines = <<>>

====
